---------------------------- MODULE Spec2Model ----------------------------
(***************************************************************************)
(* Tempus: PQImporter::import_graph (src/pgsql_importer.cc) and Roadmap    *)
(* (src/src/core/roadmap.hh).                                              *)
(*                                                                         *)
(* One behaviour of Spec is one call of import_graph on a MultimodalGraph. *)
(* The four queries return finite row sequences; each loop iteration is    *)
(* one action.  Vertex handles are the integer descriptors of a            *)
(* vector-backed boost::adjacency_list: the handle of the n-th vertex      *)
(* added is n-1.  Edge handles are the positions of the edges in insertion *)
(* order, 0 being the default-constructed descriptor that                  *)
(* std::map::operator[] yields for a key it does not hold.                 *)
(*                                                                         *)
(* A field the code never assigns is absent from the record that models    *)
(* the object.  A database field is <<>> when it is NULL and <<v>> when it *)
(* holds the value v.                                                      *)
(*                                                                         *)
(* A behaviour of SpecSteps or SpecRoadmap is a sequence of operations of   *)
(* a caller on Step objects and on Roadmaps.  Step objects live in a heap  *)
(* and are named by their address; a Roadmap is the sequence of the        *)
(* addresses its ptr_vector owns.  SpecRead applies the const operations   *)
(* of a Roadmap.                                                           *)
(***************************************************************************)
EXTENDS Integers, Sequences, FiniteSets, TLC

VARIABLES
    graph,              \* MultimodalGraph& graph: [road, public_transports]
    road_nodes_map,     \* std::map<db_id_t, Road::Vertex>
    road_sections_map,  \* std::map<db_id_t, Road::Edge>
    pt_nodes_map,       \* std::map<db_id_t, PublicTransport::Vertex>
    res,                \* pqxx::result res: the rows of the current query
    i,                  \* the loop index
    pc,                 \* position of import_graph
    calls,              \* history: the calls received by the progression callback
    streams,            \* history: the result of each query, by phase 0..3
    log,                \* history: the insertions made, in order
    graph0,             \* history: the container as import_graph received it
    heap,               \* the Step objects allocated so far, by address 1..
    roadmaps,           \* the Roadmaps: for each, StepList steps_ as addresses
    loose,              \* addresses of the steps a caller's auto_ptr owns
    added,              \* history: per Roadmap, the arguments of add_step in call order
    copies,             \* history: the [from, to] address pairs of the copies made
    writes,             \* number of setter calls made
    ret                 \* outcome of the last call of step or get_total_costs

vars == << graph, road_nodes_map, road_sections_map, pt_nodes_map, res, i, pc,
           calls, streams, log, graph0,
           heap, roadmaps, loose, added, copies, writes, ret >>

\* The state of import_graph and the state of the Roadmaps.
import_vars == << graph, road_nodes_map, road_sections_map, pt_nodes_map, res, i, pc,
                  calls, streams, log, graph0 >>

roadmap_vars == << heap, roadmaps, loose, added, copies, writes, ret >>

-----------------------------------------------------------------------------
(* Bounds of the model.                                                    *)

\* Most rows the four queries return together in one import.
MaxRows == 4

\* Most calls of the progress expression applied in SpecProgress.
MaxCalls == 2

-----------------------------------------------------------------------------
(* Database fields (pqxx::field).                                          *)

NULL == << >>

Value(v) == << v >>

is_null(f) == Len(f) = 0

\* field::as<T>() of a field that holds a value.
as(f) == f[1]

-----------------------------------------------------------------------------
(* Single-precision values.  A float is [m, e], standing for m * 2^(-e),   *)
(* with 2^23 <= m < 2^24, or [m |-> 0, e |-> 0] for zero.                  *)

Significand == 2^23

Zero == [m |-> 0, e |-> 0]

One == [m |-> Significand, e |-> 23]

\* Binary long division: the state after producing bits of r/den until the
\* significand m holds 24 significant bits.  r < den throughout, so 2*r stays
\* below 2*den and nothing overflows.
RECURSIVE LongDiv(_, _, _, _)
LongDiv(r, den, m, e) ==
    IF m >= Significand
    THEN [m |-> m, e |-> e, r |-> r]
    ELSE LET bit == IF 2 * r >= den THEN 1 ELSE 0
         IN  LongDiv(2 * r - bit * den, den, 2 * m + bit, e + 1)

\* Round to nearest, ties to even, of the 24-bit truncation d with remainder d.r.
RoundNearestEven(d, den) ==
    LET up == \/ 2 * d.r > den
              \/ (2 * d.r = den /\ d.m % 2 = 1)
        m1 == IF up THEN d.m + 1 ELSE d.m
    IN  IF m1 = 2 * Significand
        THEN [m |-> Significand, e |-> d.e - 1]
        ELSE [m |-> m1, e |-> d.e]

\* static_cast<float>( x ) for the number x = num/den, 0 <= x <= 1.  The double
\* arithmetic that produces x is correct to 53 bits; for the sizes used here
\* (den = 4 * res.size() below 2^28) no single-precision rounding boundary
\* lies within that error of x unless x is the boundary itself, which a
\* double holds exactly, so rounding x once gives the float the code computes.
ToFloat(num, den) ==
    IF num = 0 THEN Zero
    ELSE IF num = den THEN One
    ELSE RoundNearestEven(LongDiv(num, den, 0, 0), den)

\* a <= b on floats.
FloatLeq(a, b) ==
    IF a.m = 0 THEN TRUE
    ELSE IF b.m = 0 THEN FALSE
    ELSE IF a.e # b.e THEN a.e > b.e
    ELSE a.m <= b.m

FloatLess(a, b) == FloatLeq(a, b) /\ a # b

\* Whether the float f lies within half a unit of its last place of the
\* number num/den, 0 <= num <= den: with q and r the quotient and remainder of
\* num * 2^(f.e + 1) by den, 2 * f.m - 1 <= q + r/den <= 2 * f.m + 1.
RECURSIVE Scaled(_, _, _, _)
Scaled(r, den, m, e) ==
    IF e = 0
    THEN [m |-> m, r |-> r]
    ELSE LET bit == IF 2 * r >= den THEN 1 ELSE 0
         IN  Scaled(2 * r - bit * den, den, 2 * m + bit, e - 1)

WithinHalfUlp(f, num, den) ==
    IF num = 0 THEN f = Zero
    ELSE IF num = den THEN f = One
    ELSE /\ f.m # 0
         /\ LET d == Scaled(num, den, 0, f.e + 1)
            IN  /\ d.m >= 2 * f.m - 1
                /\ \/ d.m < 2 * f.m + 1
                   \/ (d.m = 2 * f.m + 1 /\ d.r = 0)

\* The fraction passed by the row of index idx of n rows in phase k:
\* static_cast<float>( ((idx + 0.) / res.size() / 4.0) + k * 0.25 ).
FractionNoOffset(k, idx, n) == ToFloat(idx, 4 * n)

Fraction(k, idx, n) == ToFloat(k * n + idx, 4 * n)

-----------------------------------------------------------------------------
(* std::map<db_id_t, Handle>.                                              *)

EmptyMap == [k \in {} |-> 0]

\* map.find( k ) != map.end()
Contains(map, k) == k \in DOMAIN map

\* The value of map[ k ]: the mapped handle, or the value-initialised one.
Index(map, k, default) == IF k \in DOMAIN map THEN map[k] ELSE default

\* The map after map[ k ] was evaluated: a key it did not hold is inserted.
Touch(map, k, default) ==
    IF k \in DOMAIN map THEN map
    ELSE [x \in DOMAIN map \cup {k} |-> IF x = k THEN default ELSE map[x]]

\* map[ k ] = v
Assign(map, k, v) ==
    [x \in DOMAIN map \cup {k} |-> IF x = k THEN v ELSE map[x]]

-----------------------------------------------------------------------------
(* boost::adjacency_list with vector storage and bundled properties.       *)

EmptyGraph == [vertices |-> << >>, edges |-> << >>]

\* Road::Vertex() and PublicTransport::Vertex(), value-initialised.
DefaultVertex == 0

\* Road::Edge(), default-constructed: the descriptor of no edge.
DefaultEdge == 0

\* A vertex property no statement of import_graph wrote to.
DefaultProperty == [default_constructed |-> TRUE]

num_vertices(g) == Len(g.vertices)

num_edges(g) == Len(g.edges)

\* boost::add_vertex( p, g ); the descriptor returned is num_vertices(g) before.
add_vertex(p, g) == [g EXCEPT !.vertices = Append(@, p)]

\* boost::add_edge( u, v, p, g ); the descriptor returned is num_edges(g) after.
\* With vector storage a descriptor beyond the vertices grows the vertex list.
add_edge(u, v, p, g) ==
    LET need == (IF u > v THEN u ELSE v) + 1
        grown == IF need > Len(g.vertices)
                 THEN g.vertices \o [j \in 1..(need - Len(g.vertices)) |-> DefaultProperty]
                 ELSE g.vertices
    IN  [vertices |-> grown,
         edges |-> Append(g.edges, [source |-> u, target |-> v, property |-> p])]

\* g[v].vertex = v
set_vertex(g, v) == [g EXCEPT !.vertices[v + 1] = ("vertex" :> v) @@ @]

\* g[e].edge = e
set_edge(g, e) == [g EXCEPT !.edges[e].property = ("edge" :> e) @@ @]

-----------------------------------------------------------------------------
(* The rows the persistence layer may return.                              *)

\* tempus.road_node: id, junction, bifurcation.
RoadNodeRows ==
    { [id |-> 1, junction |-> FALSE, bifurcation |-> FALSE],
      [id |-> 2, junction |-> TRUE, bifurcation |-> FALSE] }

\* tempus.road_section: id, road_type, node_from, node_to and the fifteen
\* columns 4..18, which are copied field by field and kept here as one value.
RoadSectionRows ==
    { [id |-> 10, road_type |-> Value(1), node_from |-> 1, node_to |-> 2, columns |-> "a"],
      [id |-> 11, road_type |-> NULL, node_from |-> 1, node_to |-> 2, columns |-> "b"],
      [id |-> 11, road_type |-> Value(2), node_from |-> 2, node_to |-> 2, columns |-> "c"],
      [id |-> 12, road_type |-> Value(1), node_from |-> 9, node_to |-> 1, columns |-> "d"] }

\* tempus.pt_stop: id, name, location_type, parent_station, road_section_id,
\* zone_id, abscissa_road_section.
StopRows ==
    { [id |-> 0, name |-> "s0", location_type |-> TRUE, parent_station |-> NULL,
       road_section_id |-> 10, zone_id |-> 1, abscissa_road_section |-> "0.3"],
      [id |-> 1, name |-> "s1", location_type |-> FALSE, parent_station |-> Value(0),
       road_section_id |-> 10, zone_id |-> 1, abscissa_road_section |-> "0.6"],
      [id |-> 2, name |-> "s2", location_type |-> FALSE, parent_station |-> Value(1),
       road_section_id |-> 10, zone_id |-> 1, abscissa_road_section |-> "0.6"],
      [id |-> 1, name |-> "s1", location_type |-> FALSE, parent_station |-> Value(1),
       road_section_id |-> 11, zone_id |-> 2, abscissa_road_section |-> "0.1"],
      [id |-> 2, name |-> "s2", location_type |-> FALSE, parent_station |-> NULL,
       road_section_id |-> 99, zone_id |-> 2, abscissa_road_section |-> "0.9"] }

\* tempus.pt_section: stop_from, stop_to.
PTSectionRows ==
    { [stop_from |-> 0, stop_to |-> 1],
      [stop_from |-> 1, stop_to |-> 2],
      [stop_from |-> 1, stop_to |-> 9] }

\* The values an int that was never written may hold when it is read.
IndeterminateInt == {0, 1, 9}

SeqsUpTo(S, n) == UNION { [1..m -> S] : m \in 0..n }

\* The containers import_graph is called on: an empty one, and the one left
\* by an earlier import of the single road node 2.
Containers ==
    { [road |-> EmptyGraph, public_transports |-> << >>],
      [road |-> [vertices |-> << [db_id |-> 2, is_junction |-> TRUE,
                                  is_bifurcation |-> FALSE, vertex |-> 0] >>,
                 edges |-> << >>],
       public_transports |-> << EmptyGraph >>] }

-----------------------------------------------------------------------------
(* import_graph.                                                           *)

\* graph.public_transports.front() in the place of back(): the position of
\* the first public-transport graph of the container.
pt_front == IF graph.public_transports = << >> THEN 0 ELSE Len(<< graph.road >>)

\* PublicTransport::Graph& pt_graph = graph.public_transports.back()
pt_index == Len(graph.public_transports)

pt_graph == graph.public_transports[pt_index]

\* progression( fraction, finished ).  phase, row and size are history: the
\* phase (4 for the final call), the loop index and res.size() of the call.
progression(c, fraction, finished, k, idx, n) ==
    Append(c, [fraction |-> fraction, finished |-> finished,
               phase |-> k, row |-> idx, size |-> n])

\* i < res.size()
LoopContinues(idx, n) == idx < n

\* res[i], read from the last row backwards.
CurrentRowReversed(r, idx) == r[Len(r) - idx]

\* res[i]
CurrentRow(r, idx) == r[idx + 1]

RowsUsed == Len(streams[0]) + Len(streams[1]) + Len(streams[2]) + Len(streams[3])

\* res = w.exec( query ) of phase k, and the for statement's i = 0.
Exec(k, Rows) ==
    \E r \in SeqsUpTo(Rows, MaxRows - RowsUsed) :
        /\ res' = r
        /\ i' = 0
        /\ streams' = [streams EXCEPT ![k] = r]

\* No Step object and no Roadmap exist.
NoRoadmaps ==
    /\ heap = << >>
    /\ roadmaps = << >>
    /\ loose = {}
    /\ added = << >>
    /\ copies = {}
    /\ writes = 0
    /\ ret = [op |-> "none"]

Init ==
    /\ graph \in Containers
    /\ graph0 = graph
    /\ road_nodes_map = EmptyMap
    /\ road_sections_map = EmptyMap
    /\ pt_nodes_map = EmptyMap
    /\ res = << >>
    /\ i = 0
    /\ pc = "start"
    /\ calls = << >>
    /\ streams = [k \in 0..3 |-> << >>]
    /\ log = << >>
    /\ NoRoadmaps

\* Lines 26-38: the new public-transport graph and the road node query.
Begin ==
    /\ pc = "start"
    /\ graph' = [graph EXCEPT !.public_transports = Append(@, EmptyGraph)]
    /\ Exec(0, RoadNodeRows)
    /\ pc' = "road_node"
    /\ UNCHANGED << road_nodes_map, road_sections_map, pt_nodes_map, calls, log, graph0, roadmap_vars >>

\* Lines 40-54: one road node.
RoadNodeRow ==
    /\ pc = "road_node"
    /\ LoopContinues(i, Len(res))
    /\ LET row == CurrentRow(res, i)
           node == [db_id |-> row.id, is_junction |-> row.junction,
                    is_bifurcation |-> row.bifurcation]
           v == num_vertices(graph.road)
       IN  /\ graph' = [graph EXCEPT !.road = set_vertex(add_vertex(node, @), v)]
           /\ road_nodes_map' = Assign(road_nodes_map, node.db_id, v)
           /\ calls' = progression(calls, Fraction(0, i, Len(res)), FALSE, 0, i, Len(res))
           /\ log' = Append(log, [phase |-> 0, row |-> row, handle |-> v])
    /\ i' = i + 1
    /\ UNCHANGED << road_sections_map, pt_nodes_map, res, pc, streams, graph0, roadmap_vars >>

\* Lines 56-59: the road section query, once the road node loop is over.
ExecRoadSections ==
    /\ pc = "road_node"
    /\ ~LoopContinues(i, Len(res))
    /\ Exec(1, RoadSectionRows)
    /\ pc' = "road_section"
    /\ UNCHANGED << graph, road_nodes_map, road_sections_map, pt_nodes_map, calls, log,
                    graph0, roadmap_vars >>

\* Lines 61-99: one road section.
RoadSectionRow ==
    /\ pc = "road_section"
    /\ LoopContinues(i, Len(res))
    /\ LET row == CurrentRow(res, i)
           columns == [db_id |-> row.id, columns |-> row.columns]
           section == IF is_null(row.road_type) THEN columns
                      ELSE ("road_type" :> as(row.road_type)) @@ columns
           v_from == Index(road_nodes_map, row.node_from, DefaultVertex)
           map1 == Touch(road_nodes_map, row.node_from, DefaultVertex)
           v_to == Index(map1, row.node_to, DefaultVertex)
           map2 == Touch(map1, row.node_to, DefaultVertex)
           g == add_edge(v_from, v_to, section, graph.road)
           e == num_edges(g)
       IN  /\ graph' = [graph EXCEPT !.road = set_edge(g, e)]
           /\ road_nodes_map' = map2
           /\ road_sections_map' = Assign(road_sections_map, section.db_id, e)
           /\ calls' = progression(calls, Fraction(1, i, Len(res)), FALSE, 1, i, Len(res))
           /\ log' = Append(log, [phase |-> 1, row |-> row, handle |-> e])
    /\ i' = i + 1
    /\ UNCHANGED << pt_nodes_map, res, pc, streams, graph0, roadmap_vars >>

\* Line 101 followed by a report of 0.5, the fraction the stop phase starts at.
ExecStopsReporting ==
    /\ pc = "road_section"
    /\ ~LoopContinues(i, Len(res))
    /\ Exec(2, StopRows)
    /\ pc' = "pt_stop"
    /\ calls' = progression(calls, [m |-> Significand, e |-> 24], FALSE, 2, 0, 0)
    /\ UNCHANGED << graph, road_nodes_map, road_sections_map, pt_nodes_map, log, graph0, roadmap_vars >>

\* Line 101: the stop query, once the road section loop is over.
ExecStops ==
    /\ pc = "road_section"
    /\ ~LoopContinues(i, Len(res))
    /\ Exec(2, StopRows)
    /\ pc' = "pt_stop"
    /\ UNCHANGED << graph, road_nodes_map, road_sections_map, pt_nodes_map, calls, log,
                    graph0, roadmap_vars >>

\* Lines 103-133: one stop.  operator>> leaves parent_station unwritten when
\* the field is NULL, and line 115 then reads an int that was never written.
StopRow ==
    /\ pc = "pt_stop"
    /\ LoopContinues(i, Len(res))
    /\ LET row == CurrentRow(res, i)
       IN  \E parent_station \in
               (IF is_null(row.parent_station) THEN IndeterminateInt
                ELSE {as(row.parent_station)}) :
             LET found == Contains(pt_nodes_map, parent_station)
                 read == [db_id |-> row.id, name |-> row.name,
                          is_station |-> row.location_type, has_parent |-> found,
                          road_section |-> Index(road_sections_map, row.road_section_id,
                                                 DefaultEdge),
                          zone_id |-> row.zone_id,
                          abscissa_road_section |-> row.abscissa_road_section]
                 stop == IF found
                         THEN ("parent_station" :> pt_nodes_map[parent_station]) @@ read
                         ELSE read
                 v == num_vertices(pt_graph)
             IN  /\ graph' = [graph EXCEPT !.public_transports[pt_index] =
                                               set_vertex(add_vertex(stop, @), v)]
                 /\ road_sections_map' = Touch(road_sections_map, row.road_section_id,
                                               DefaultEdge)
                 /\ pt_nodes_map' = Assign(pt_nodes_map, stop.db_id, v)
                 /\ calls' = progression(calls, Fraction(2, i, Len(res)), FALSE,
                                         2, i, Len(res))
                 /\ log' = Append(log, [phase |-> 2, row |-> row, handle |-> v])
    /\ i' = i + 1
    /\ UNCHANGED << road_nodes_map, res, pc, streams, graph0, roadmap_vars >>

\* Line 135: the PT section query, once the stop loop is over.
ExecPTSections ==
    /\ pc = "pt_stop"
    /\ ~LoopContinues(i, Len(res))
    /\ Exec(3, PTSectionRows)
    /\ pc' = "pt_section"
    /\ UNCHANGED << graph, road_nodes_map, road_sections_map, pt_nodes_map, calls, log,
                    graph0, roadmap_vars >>

\* Lines 137-153 with the edge of line 149 added to road_graph: the vertex
\* descriptors of both graphs are integers, so the call compiles.
PTSectionRowOnRoad ==
    /\ pc = "pt_section"
    /\ LoopContinues(i, Len(res))
    /\ LET row == CurrentRow(res, i)
           stop_from == Index(pt_nodes_map, row.stop_from, DefaultVertex)
           map1 == Touch(pt_nodes_map, row.stop_from, DefaultVertex)
           stop_to == Index(map1, row.stop_to, DefaultVertex)
           map2 == Touch(map1, row.stop_to, DefaultVertex)
           g == add_edge(stop_from, stop_to, DefaultProperty, graph.road)
           e == num_edges(g)
       IN  /\ graph' = [graph EXCEPT !.road = set_edge(g, e)]
           /\ pt_nodes_map' = map2
           /\ calls' = progression(calls, Fraction(3, i, Len(res)), FALSE, 3, i, Len(res))
           /\ log' = Append(log, [phase |-> 3, row |-> row, handle |-> e])
    /\ i' = i + 1
    /\ UNCHANGED << road_nodes_map, road_sections_map, res, pc, streams, graph0, roadmap_vars >>

\* Lines 137-153: one PT section.
PTSectionRow ==
    /\ pc = "pt_section"
    /\ LoopContinues(i, Len(res))
    /\ LET row == CurrentRow(res, i)
           stop_from == Index(pt_nodes_map, row.stop_from, DefaultVertex)
           map1 == Touch(pt_nodes_map, row.stop_from, DefaultVertex)
           stop_to == Index(map1, row.stop_to, DefaultVertex)
           map2 == Touch(map1, row.stop_to, DefaultVertex)
           g == add_edge(stop_from, stop_to, DefaultProperty, pt_graph)
           e == num_edges(g)
       IN  /\ graph' = [graph EXCEPT !.public_transports[pt_index] = set_edge(g, e)]
           /\ pt_nodes_map' = map2
           /\ calls' = progression(calls, Fraction(3, i, Len(res)), FALSE, 3, i, Len(res))
           /\ log' = Append(log, [phase |-> 3, row |-> row, handle |-> e])
    /\ i' = i + 1
    /\ UNCHANGED << road_nodes_map, road_sections_map, res, pc, streams, graph0, roadmap_vars >>

\* Line 155: progression( 1.0, true ), once the PT section loop is over.
Finish ==
    /\ pc = "pt_section"
    /\ ~LoopContinues(i, Len(res))
    /\ calls' = progression(calls, One, TRUE, 4, 0, 0)
    /\ pc' = "done"
    /\ UNCHANGED << graph, road_nodes_map, road_sections_map, pt_nodes_map, res, i,
                    streams, log, graph0, roadmap_vars >>

Next ==
    \/ Begin
    \/ RoadNodeRow
    \/ ExecRoadSections
    \/ RoadSectionRow
    \/ ExecStops
    \/ StopRow
    \/ ExecPTSections
    \/ PTSectionRow
    \/ Finish

Spec == Init /\ [][Next]_vars

-----------------------------------------------------------------------------
(* The progress expression on its own, for result sizes no behaviour of    *)
(* Spec holds row by row.                                                  *)

\* res.size() of the calls applied.
Sizes == {1, 2, 3, 5, 2^23, 2^25 + 1}

\* The loop indexes applied for a result of n rows.
Indexes(n) == {0, n \div 2, n - 1}

InitProgress ==
    /\ graph = [road |-> EmptyGraph, public_transports |-> << EmptyGraph >>]
    /\ graph0 = [road |-> EmptyGraph, public_transports |-> << >>]
    /\ road_nodes_map = EmptyMap
    /\ road_sections_map = EmptyMap
    /\ pt_nodes_map = EmptyMap
    /\ res = << >>
    /\ i = 0
    /\ pc = "progression"
    /\ calls = << >>
    /\ streams = [k \in 0..3 |-> << >>]
    /\ log = << >>
    /\ NoRoadmaps

\* One evaluation of the expression of lines 53, 98, 132 and 152.
ApplyFraction ==
    /\ pc = "progression"
    /\ Len(calls) < MaxCalls
    /\ \E k \in 0..3, n \in Sizes :
         \E idx \in Indexes(n) :
           calls' = progression(calls, Fraction(k, idx, n), FALSE, k, idx, n)
    /\ UNCHANGED << graph, road_nodes_map, road_sections_map, pt_nodes_map, res, i, pc,
                    streams, log, graph0, roadmap_vars >>

NextProgress == ApplyFraction

SpecProgress == InitProgress /\ [][NextProgress]_vars

-----------------------------------------------------------------------------
(* Cost values (double).                                                   *)

\* A double that holds a whole number below 2^56 is the record [hi, lo] of
\* value hi * LowBits + lo, with lo < LowBits.
LowBits == 2^30

DZero == [hi |-> 0, lo |-> 0]

DOne == [hi |-> 0, lo |-> 1]

\* 2^53, the first double whose successor is 2 away.
TwoTo53 == [hi |-> 2^23, lo |-> 0]

\* The spacing of the doubles around hi * LowBits: 53 bits of significand.
Ulp(hi) == IF hi < 2^23 THEN 1 ELSE IF hi < 2^24 THEN 2 ELSE IF hi < 2^25 THEN 4 ELSE 8

\* a + b in double arithmetic: the exact sum rounded to the nearest double,
\* ties to the even significand.
DoubleAdd(a, b) ==
    LET lo_sum == a.lo + b.lo
        hi_sum == a.hi + b.hi + (lo_sum \div LowBits)
        lo_exact == lo_sum % LowBits
        u == Ulp(hi_sum)
        q == lo_exact \div u
        rem == lo_exact % u
        up == 2 * rem > u \/ (2 * rem = u /\ q % 2 = 1)
        lo_rounded == (IF up THEN q + 1 ELSE q) * u
    IN  [hi |-> hi_sum + (lo_rounded \div LowBits), lo |-> lo_rounded % LowBits]

-----------------------------------------------------------------------------
(* Roadmap::Step and its three kinds.                                      *)

\* The data members of each class; "class" is the dynamic type of the object.
StepMembers == {"class", "step_type", "costs", "transport_mode", "geometry_wkb"}

RoadStepMembers ==
    StepMembers \cup {"road_edge_id", "road_name", "distance_km", "end_movement"}

PublicTransportStepMembers ==
    StepMembers \cup {"network_id", "wait", "departure_time", "arrival_time", "trip_id",
                      "departure_stop", "departure_name", "arrival_stop", "arrival_name",
                      "route"}

TransferStepMembers ==
    StepMembers \cup {"source", "target", "final_mode", "initial_name", "final_name"}

Members(class) ==
    CASE class = "Step" -> StepMembers
      [] class = "RoadStep" -> RoadStepMembers
      [] class = "PublicTransportStep" -> PublicTransportStepMembers
      [] class = "TransferStep" -> TransferStepMembers

\* Step( StepType type ) : step_type_( type ) {}
Step(type) ==
    [class |-> "Step", step_type |-> type, costs |-> EmptyMap, geometry_wkb |-> ""]

\* RoadStep() : Step( Step::RoadStep ) {}
RoadStep ==
    [class |-> "RoadStep", road_name |-> ""] @@ Step("RoadStep")

\* PublicTransportStep() : Step( Step::PublicTransportStep ), wait_(0.0) {}
PublicTransportStep ==
    [class |-> "PublicTransportStep", wait |-> DZero, departure_name |-> "",
     arrival_name |-> "", route |-> ""] @@ Step("PublicTransportStep")

\* TransferStep( v1, v2 ) : Step( Step::TransferStep ), MMEdge( v1, v2 ) {}
TransferStep(v1, v2) ==
    [class |-> "TransferStep", source |-> v1, target |-> v2, initial_name |-> "",
     final_name |-> ""] @@ Step("TransferStep")

\* class( *this ): the copy constructor of a class, which copies the members
\* of that class and no member of a class derived from it.
CopyConstruct(class, o) ==
    [f \in DOMAIN o \cap Members(class) |-> IF f = "class" THEN class ELSE o[f]]

\* A clone() that no kind overrides: return new Step( *this ) for every step.
clone_base(h, a) ==
    [heap |-> Append(h, CopyConstruct("Step", h[a])), ptr |-> Len(h) + 1]

\* virtual clone() const of the step at address a: a new object made by the
\* copy constructor of the step's own class.
clone(h, a) ==
    LET o == h[a]
        copy == CASE o.class = "Step" -> CopyConstruct("Step", o)
                  [] o.class = "RoadStep" -> CopyConstruct("RoadStep", o)
                  [] o.class = "PublicTransportStep" ->
                         CopyConstruct("PublicTransportStep", o)
                  [] o.class = "TransferStep" -> CopyConstruct("TransferStep", o)
    IN  [heap |-> Append(h, copy), ptr |-> Len(h) + 1]

\* A new_clone that hands back the step it was given.
new_clone_shared(h, a) == [heap |-> h, ptr |-> a]

\* inline Roadmap::Step* new_clone( const Roadmap::Step& step )
new_clone(h, a) == clone(h, a)

\* The copy constructor of boost::ptr_vector<Step>: one new_clone per
\* element, in order.
RECURSIVE StepListCopy(_, _)
StepListCopy(h, steps) ==
    IF steps = << >> THEN [heap |-> h, steps |-> << >>]
    ELSE LET c == new_clone(h, Head(steps))
             rest == StepListCopy(c.heap, Tail(steps))
         IN  [heap |-> rest.heap, steps |-> << c.ptr >> \o rest.steps]

\* The setter of DECLARE_RW_PROPERTY( f, ... ).
set_property(o, f, v) == [g \in DOMAIN o \cup {f} |-> IF g = f THEN v ELSE o[g]]

\* void set_cost( CostId id, double c )
set_cost(o, id, c) == [o EXCEPT !.costs = Assign(@, id, c)]

\* void add_step( std::auto_ptr<Step> step ) putting the step first.
add_step_front(steps, a) == << a >> \o steps

\* void add_step( std::auto_ptr<Step> step )
add_step(steps, a) == Append(steps, a)

\* const Step& step( size_t idx ) const that reads the last step for an
\* index past the end.
step_clamped(steps, idx) ==
    IF steps = << >> THEN [op |-> "step", error |-> "OutOfRangeError", ref |-> 0]
    ELSE [op |-> "step", error |-> "",
          ref |-> steps[IF idx >= Len(steps) THEN Len(steps) ELSE idx + 1]]

\* const Step& step( size_t idx ) const
step(steps, idx) ==
    IF idx >= Len(steps) THEN [op |-> "step", error |-> "OutOfRangeError", ref |-> 0]
    ELSE [op |-> "step", error |-> "", ref |-> steps[idx + 1]]

\* The smallest key of a non-empty key set: where the iteration of a std::map
\* starts.
FirstKey(keys) == CHOOSE k \in keys : \A n \in keys : k <= n

\* total_costs[kind] = value for the entries of one step's Costs.
RECURSIVE SetCosts(_, _, _)
SetCosts(total, costs, keys) ==
    IF keys = {} THEN total
    ELSE LET k == FirstKey(keys)
         IN  SetCosts(Assign(total, k, costs[k]), costs, keys \ {k})

\* total_costs[kind] += value for the entries of one step's Costs, a kind
\* the total lacks starting at 0.0.
RECURSIVE AddCosts(_, _, _)
AddCosts(total, costs, keys) ==
    IF keys = {} THEN total
    ELSE LET k == FirstKey(keys)
         IN  AddCosts(Assign(total, k, DoubleAdd(Index(total, k, DZero), costs[k])),
                      costs, keys \ {k})

RECURSIVE TotalFrom(_, _, _)
TotalFrom(total, h, steps) ==
    IF steps = << >> THEN total
    ELSE TotalFrom(AddCosts(total, h[Head(steps)].costs, DOMAIN h[Head(steps)].costs),
                   h, Tail(steps))

\* Costs get_total_costs( const Roadmap& )
get_total_costs(h, steps) == TotalFrom(EmptyMap, h, steps)

-----------------------------------------------------------------------------
(* A caller building Roadmaps.                                             *)

\* Most Step objects allocated, most Roadmaps, most setter calls.
MaxObjects == 4

MaxRoadmaps == 2

MaxWrites == 1

\* The cost kinds and cost values a caller sets, the id it sets properties
\* to, and the properties it sets.
CostIds == {1, 2}

CostValues == {DOne, TwoTo53}

Ids == {1}

SetProperties == {"transport_mode", "road_edge_id", "network_id", "final_mode"}

\* import_graph is not running.
ImportIdle ==
    /\ graph = [road |-> EmptyGraph, public_transports |-> << >>]
    /\ graph0 = graph
    /\ road_nodes_map = EmptyMap
    /\ road_sections_map = EmptyMap
    /\ pt_nodes_map = EmptyMap
    /\ res = << >>
    /\ i = 0
    /\ calls = << >>
    /\ streams = [k \in 0..3 |-> << >>]
    /\ log = << >>

InitRoadmap ==
    /\ ImportIdle
    /\ pc = "roadmap"
    /\ NoRoadmaps

\* Roadmap r, default-constructed: steps_ is empty.
NewRoadmap ==
    /\ pc = "roadmap"
    /\ Len(roadmaps) < MaxRoadmaps
    /\ roadmaps' = Append(roadmaps, << >>)
    /\ added' = Append(added, << >>)
    /\ UNCHANGED << import_vars, heap, loose, copies, writes, ret >>

\* std::auto_ptr<Step> s( new RoadStep ), or one of the other two kinds.
NewStep ==
    /\ pc = "roadmap"
    /\ Len(heap) < MaxObjects
    /\ \E o \in {RoadStep, PublicTransportStep, TransferStep(1, 2)} :
         heap' = Append(heap, o)
    /\ loose' = loose \cup {Len(heap) + 1}
    /\ UNCHANGED << import_vars, roadmaps, added, copies, writes, ret >>

\* s->set_cost( id, c ) on a step the caller owns or reaches through the
\* iterators of a Roadmap.
SetCost ==
    /\ pc = "roadmap"
    /\ writes < MaxWrites
    /\ \E a \in DOMAIN heap, id \in CostIds, c \in CostValues :
         heap' = [heap EXCEPT ![a] = set_cost(@, id, c)]
    /\ writes' = writes + 1
    /\ UNCHANGED << import_vars, roadmaps, loose, added, copies, ret >>

\* s->set_transport_mode( v ) and the setters of the derived classes.
SetProperty ==
    /\ pc = "roadmap"
    /\ writes < MaxWrites
    /\ \E a \in DOMAIN heap, v \in Ids :
         \E f \in Members(heap[a].class) \cap SetProperties :
           heap' = [heap EXCEPT ![a] = set_property(@, f, v)]
    /\ writes' = writes + 1
    /\ UNCHANGED << import_vars, roadmaps, loose, added, copies, ret >>

\* std::auto_ptr<Step> c( s->clone() )
CloneStep ==
    /\ pc = "roadmap"
    /\ Len(heap) < MaxObjects
    /\ \E a \in DOMAIN heap :
         LET c == clone(heap, a)
         IN  /\ heap' = c.heap
             /\ loose' = loose \cup {c.ptr}
             /\ copies' = copies \cup {[from |-> a, to |-> c.ptr]}
    /\ UNCHANGED << import_vars, roadmaps, added, writes, ret >>

\* r.add_step( s ): the auto_ptr gives the step up to the Roadmap.
AddStep ==
    /\ pc = "roadmap"
    /\ \E r \in DOMAIN roadmaps, a \in loose :
         /\ roadmaps' = [roadmaps EXCEPT ![r] = add_step(@, a)]
         /\ added' = [added EXCEPT ![r] = Append(@, a)]
         /\ loose' = loose \ {a}
    /\ UNCHANGED << import_vars, heap, copies, writes, ret >>

\* Roadmap c( r ): the copy constructor, which copies steps_.
CopyRoadmap ==
    /\ pc = "roadmap"
    /\ Len(roadmaps) < MaxRoadmaps
    /\ \E r \in DOMAIN roadmaps :
         /\ Len(heap) + Len(roadmaps[r]) <= MaxObjects
         /\ LET c == StepListCopy(heap, roadmaps[r])
            IN  /\ heap' = c.heap
                /\ roadmaps' = Append(roadmaps, c.steps)
                /\ copies' = copies \cup { [from |-> roadmaps[r][j], to |-> c.steps[j]] :
                                             j \in DOMAIN c.steps }
    /\ added' = Append(added, << >>)
    /\ UNCHANGED << import_vars, loose, writes, ret >>

\* A caller that makes, copies and writes steps without a Roadmap.
NextSteps ==
    \/ NewStep
    \/ SetCost
    \/ SetProperty
    \/ CloneStep

SpecSteps == InitRoadmap /\ [][NextSteps]_vars

\* A caller that builds and copies Roadmaps and writes their steps' costs.
NextRoadmap ==
    \/ NewRoadmap
    \/ NewStep
    \/ SetCost
    \/ AddStep
    \/ CopyRoadmap

SpecRoadmap == InitRoadmap /\ [][NextRoadmap]_vars

-----------------------------------------------------------------------------
(* The const operations of a Roadmap, applied to the Roadmaps add_step     *)
(* can build.                                                              *)

\* Most steps of the Roadmap read.
MaxSteps == 3

\* The Costs a step holds: every map from some of the cost kinds to values.
CostMaps == UNION { [K -> CostValues] : K \in SUBSET CostIds }

InitRead ==
    /\ ImportIdle
    /\ pc = "read"
    /\ \E n \in 0..MaxSteps :
         /\ heap \in [1..n -> { [RoadStep EXCEPT !.costs = m] : m \in CostMaps }]
         /\ roadmaps = << [j \in 1..n |-> j] >>
    /\ loose = {}
    /\ added = roadmaps
    /\ copies = {}
    /\ writes = 0
    /\ ret = [op |-> "none"]

\* r.step( idx )
CallStep ==
    /\ pc = "read"
    /\ \E idx \in 0..(MaxSteps + 1) : ret' = [index |-> idx] @@ step(roadmaps[1], idx)
    /\ UNCHANGED << import_vars, heap, roadmaps, loose, added, copies, writes >>

\* get_total_costs( r )
CallGetTotalCosts ==
    /\ pc = "read"
    /\ ret' = [op |-> "get_total_costs", value |-> get_total_costs(heap, roadmaps[1])]
    /\ UNCHANGED << import_vars, heap, roadmaps, loose, added, copies, writes >>

NextRead ==
    \/ CallStep
    \/ CallGetTotalCosts

SpecRead == InitRead /\ [][NextRead]_vars

-----------------------------------------------------------------------------
(* Properties.                                                             *)

\* k/4 as a float.
Quarter(k) == ToFloat(k, 4)

\* The calls that report the end of the import.
FinalCalls == { a \in DOMAIN calls : calls[a].fraction = One /\ calls[a].finished }

\* The rows of the four queries in the order the phases take them.
Tagged(k) == [j \in 1..Len(streams[k]) |-> [phase |-> k, row |-> streams[k][j]]]

Flat == Tagged(0) \o Tagged(1) \o Tagged(2) \o Tagged(3)

\* External ids of the records of this import, and of the road nodes the
\* container held before it.
ImportedNodeIds == { streams[0][j].id : j \in 1..Len(streams[0]) }

KnownNodeIds ==
    ImportedNodeIds \cup { graph0.road.vertices[j].db_id : j \in 1..Len(graph0.road.vertices) }

ImportedSectionIds == { streams[1][j].id : j \in 1..Len(streams[1]) }

ImportedStopIds == { streams[2][j].id : j \in 1..Len(streams[2]) }

\* C1: in every run the fractions passed to the progress callback never
\* decrease, no call before the end carries (1.0, finished), and a finished
\* run made that call exactly once, as its last call.
C1_ProgressMonotone ==
    /\ \A a, b \in DOMAIN calls :
         a < b => FloatLeq(calls[a].fraction, calls[b].fraction)
    /\ pc # "done" => FinalCalls = {}
    /\ pc = "done" => calls # << >> /\ FinalCalls = {Len(calls)}

\* A finished run whose road node, road section and stop phases each reported.
C1_Witness ==
    /\ pc = "done"
    /\ \A k \in 0..2 : \E a \in DOMAIN calls : calls[a].phase = k

\* C2: every call made for a row of phase k has finished = false and a
\* fraction f with k/4 <= f < (k+1)/4, f being the single-precision value of
\* k/4 + i/(4n) for row i of n.
C2_PhaseQuarter ==
    \A a \in DOMAIN calls :
        calls[a].phase < 4 =>
            LET c == calls[a]
            IN  /\ ~c.finished
                /\ FloatLeq(Quarter(c.phase), c.fraction)
                /\ FloatLess(c.fraction, Quarter(c.phase + 1))
                /\ WithinHalfUlp(c.fraction, c.phase * c.size + c.row, 4 * c.size)

\* C3: a phase whose query returned no row makes no progress call; once its
\* loop is over the import can go on, and the step it takes is the next
\* query (or the final call) and reports nothing for the empty phase; a
\* finished run over four empty results made the final call only.
C3_EmptyPhaseSilent ==
    /\ \A a \in DOMAIN calls : calls[a].phase < 4 => streams[calls[a].phase] # << >>
    /\ (pc = "road_node" /\ res = << >>) => ENABLED ExecRoadSections
    /\ (pc = "road_section" /\ res = << >>) => ENABLED ExecStops
    /\ (pc = "pt_stop" /\ res = << >>) => ENABLED ExecPTSections
    /\ (pc = "pt_section" /\ res = << >>) => ENABLED Finish
    /\ (pc = "done" /\ \A k \in 0..3 : streams[k] = << >>) =>
           (Len(calls) = 1 /\ calls[1].fraction = One /\ calls[1].finished)

\* A finished run whose road section query was empty between two phases that
\* had rows.
C3_Witness ==
    /\ pc = "done"
    /\ streams[0] # << >>
    /\ streams[1] = << >>
    /\ streams[2] # << >>

\* C4: the insertions made so far are, in order, the first rows of the road
\* node, road section, stop and PT section results taken one result after the
\* other; each inserted vertex or edge carries the id of its row; a finished
\* run inserted every row.
C4_PhaseOrder ==
    /\ Len(log) <= Len(Flat)
    /\ \A l \in DOMAIN log :
         /\ log[l].phase = Flat[l].phase
         /\ log[l].row = Flat[l].row
         /\ log[l].phase = 0 => graph.road.vertices[log[l].handle + 1].db_id = log[l].row.id
         /\ log[l].phase = 1 => graph.road.edges[log[l].handle].property.db_id = log[l].row.id
         /\ log[l].phase = 2 => pt_graph.vertices[log[l].handle + 1].db_id = log[l].row.id
         /\ log[l].phase = 3 => log[l].handle \in DOMAIN pt_graph.edges
    /\ \A l, n \in DOMAIN log :
         (l < n /\ log[l].phase = log[n].phase) => log[l].handle < log[n].handle
    /\ pc = "done" => Len(log) = Len(Flat)

\* A finished run with two different road nodes, a road section and a stop.
C4_Witness ==
    /\ pc = "done"
    /\ Len(streams[0]) = 2
    /\ streams[0][1] # streams[0][2]
    /\ streams[1] # << >>
    /\ streams[2] # << >>

\* C5: after an import into an empty road graph whose road sections all name
\* ids of road node records, the road graph has as many vertices as there are
\* distinct node records and as many edges as section records, and the edge
\* of each section record runs from the vertex with id node_from to the
\* vertex with id node_to.
C5_RoadGraphMatchesRecords ==
    ( /\ pc = "done"
      /\ graph0.road = EmptyGraph
      /\ \A j \in 1..Len(streams[1]) :
           /\ streams[1][j].node_from \in ImportedNodeIds
           /\ streams[1][j].node_to \in ImportedNodeIds )
    => /\ num_vertices(graph.road) =
              Cardinality({ streams[0][j] : j \in 1..Len(streams[0]) })
       /\ num_edges(graph.road) = Len(streams[1])
       /\ \A j \in 1..Len(streams[1]) :
            LET e == graph.road.edges[j]
            IN  /\ graph.road.vertices[e.source + 1].db_id = streams[1][j].node_from
                /\ graph.road.vertices[e.target + 1].db_id = streams[1][j].node_to

\* C6: no edge is added to the road graph for a road section row that names
\* a node_from or node_to no road node has: the import stops at that row.
C6_UnknownNodeRejected ==
    \A l \in DOMAIN log :
        log[l].phase = 1 =>
            /\ log[l].row.node_from \in KnownNodeIds
            /\ log[l].row.node_to \in KnownNodeIds

\* C7: no stop is created for a row whose road_section_id is no imported road
\* section, no PT edge for a row whose stop_from or stop_to is no imported
\* stop, and the road section a created stop refers to is an edge with the
\* row's road_section_id.
C7_UnknownReferenceRejected ==
    \A l \in DOMAIN log :
        /\ log[l].phase = 2 =>
             /\ log[l].row.road_section_id \in ImportedSectionIds
             /\ LET e == pt_graph.vertices[log[l].handle + 1].road_section
                IN  /\ e \in DOMAIN graph.road.edges
                    /\ graph.road.edges[e].property.db_id = log[l].row.road_section_id
        /\ log[l].phase = 3 =>
             /\ log[l].row.stop_from \in ImportedStopIds
             /\ log[l].row.stop_to \in ImportedStopIds

\* C8: a step never changes or removes the handle an external id is mapped
\* to, in any of the three maps.
C8_WriteOnce ==
    [][ /\ \A k \in DOMAIN road_nodes_map :
             k \in DOMAIN road_nodes_map' /\ road_nodes_map'[k] = road_nodes_map[k]
        /\ \A k \in DOMAIN road_sections_map :
             k \in DOMAIN road_sections_map' /\ road_sections_map'[k] = road_sections_map[k]
        /\ \A k \in DOMAIN pt_nodes_map :
             k \in DOMAIN pt_nodes_map' /\ pt_nodes_map'[k] = pt_nodes_map[k] ]_vars

\* The stop rows before row j of the stop result whose id is the
\* parent_station of row j.
EarlierParents(j) ==
    { n \in 1..(j - 1) :
        IF is_null(streams[2][j].parent_station) THEN FALSE
        ELSE streams[2][n].id = as(streams[2][j].parent_station) }

\* C9: a created stop has has_parent exactly when an earlier row of the stop
\* result has its parent_station as id, and its parent is then the vertex of
\* such a row.
C9_ParentResolution ==
    \A l \in DOMAIN log :
        log[l].phase = 2 =>
            LET stop == pt_graph.vertices[log[l].handle + 1]
                j == log[l].handle + 1
            IN  /\ stop.has_parent = (EarlierParents(j) # {})
                /\ stop.has_parent => (stop.parent_station + 1) \in EarlierParents(j)

\* C10: a stop created for a row whose parent_station is NULL or 0 has
\* has_parent = false.
C10_NoParentForZeroOrNull ==
    \A l \in DOMAIN log :
        ( /\ log[l].phase = 2
          /\ IF is_null(log[l].row.parent_station) THEN TRUE
             ELSE as(log[l].row.parent_station) = 0 )
        => ~pt_graph.vertices[log[l].handle + 1].has_parent

\* C11: a call of import_graph appends exactly one public-transport graph at
\* the end of the collection and fills only that one: before its first step
\* the container is as it was given; from then on the collection is one
\* graph longer, the graphs it held keep their position, vertices and edges,
\* every stop and PT section created by the call is in the last graph, and
\* the container has one road graph, which still starts with the vertices and
\* edges it had.
C11_OneGraphAppended ==
    /\ DOMAIN graph = {"road", "public_transports"}
    /\ pc = "start" => graph = graph0
    /\ pc # "start" =>
         /\ Len(graph.public_transports) = Len(graph0.public_transports) + 1
         /\ \A j \in DOMAIN graph0.public_transports :
              graph.public_transports[j] = graph0.public_transports[j]
         /\ LET last == graph.public_transports[Len(graph.public_transports)]
            IN  /\ num_vertices(last) >=
                       Cardinality({ l \in DOMAIN log : log[l].phase = 2 })
                /\ num_edges(last) = Cardinality({ l \in DOMAIN log : log[l].phase = 3 })
         /\ Len(graph0.road.vertices) <= Len(graph.road.vertices)
         /\ \A j \in DOMAIN graph0.road.vertices :
              graph.road.vertices[j] = graph0.road.vertices[j]

\* A finished import of stops and a PT section into a container that held a
\* public-transport graph already.
C11_Witness ==
    /\ pc = "done"
    /\ graph0.public_transports # << >>
    /\ streams[2] # << >>
    /\ streams[3] # << >>

\* The road section rows inserted so far, as positions of the log.
SectionEntries == { l \in DOMAIN log : log[l].phase = 1 }

\* C18: the road graph is a multigraph: every road section record inserted so
\* far, also one with the (node_from, node_to) pair of another record or with
\* node_from = node_to, has an edge of its own carrying its columns, the road
\* graph has gained one edge per record, and the record's external id is
\* registered to that edge.
C18_Multigraph ==
    /\ num_edges(graph.road) = Len(graph0.road.edges) + Cardinality(SectionEntries)
    /\ \A l, n \in SectionEntries : l # n => log[l].handle # log[n].handle
    /\ \A l \in SectionEntries :
         /\ log[l].handle \in DOMAIN graph.road.edges
         /\ graph.road.edges[log[l].handle].property.db_id = log[l].row.id
         /\ graph.road.edges[log[l].handle].property.columns = log[l].row.columns
         /\ road_sections_map[log[l].row.id] = log[l].handle

\* C19: after every row, each vertex and edge created so far stores its own
\* handle (graph[v].vertex = v, graph[e].edge = e), and the registry maps the
\* external id of each created road node, road section and stop to the
\* handle of that very vertex or edge.
C19_EmbeddedIdentity ==
    \A l \in DOMAIN log :
        LET h == log[l].handle
        IN  /\ log[l].phase = 0 =>
                 /\ graph.road.vertices[h + 1].vertex = h
                 /\ road_nodes_map[graph.road.vertices[h + 1].db_id] = h
            /\ log[l].phase = 1 =>
                 /\ graph.road.edges[h].property.edge = h
                 /\ road_sections_map[graph.road.edges[h].property.db_id] = h
            /\ log[l].phase = 2 =>
                 /\ pt_graph.vertices[h + 1].vertex = h
                 /\ pt_nodes_map[pt_graph.vertices[h + 1].db_id] = h
            /\ log[l].phase = 3 => pt_graph.edges[h].property.edge = h

\* C20: each phase changes only its own graph: a step of the stop phase or
\* of the PT section phase, also one for a row that names an unknown id,
\* leaves the road graph as it was, and a step of the road node phase or of
\* the road section phase leaves every public-transport graph as it was.
C20_PhaseFrame ==
    [][ /\ pc \in {"pt_stop", "pt_section"} => graph'.road = graph.road
        /\ pc \in {"road_node", "road_section"} =>
               graph'.public_transports = graph.public_transports ]_vars

\* A finished import into a road graph with an edge, of a stop whose
\* road_section_id is no road section and a PT section whose stop_to is no
\* stop.
C20_Witness ==
    /\ pc = "done"
    /\ graph.road.edges # << >>
    /\ \E l \in DOMAIN log :
         log[l].phase = 2 /\ log[l].row.road_section_id \notin ImportedSectionIds
    /\ \E l \in DOMAIN log :
         log[l].phase = 3 /\ log[l].row.stop_to \notin ImportedStopIds

\* C12: the steps add_step was given for a Roadmap are the last steps of the
\* Roadmap, in the order of the calls, and the steps before them are the
\* ones the Roadmap was constructed with: each call appended its step and
\* kept the earlier steps in place.
C12_StepsInOrderAdded ==
    \A r \in DOMAIN roadmaps :
        LET n == Len(roadmaps[r]) - Len(added[r])
        IN  /\ n >= 0
            /\ added[r] = SubSeq(roadmaps[r], n + 1, Len(roadmaps[r]))
            /\ \A j \in 1..n : \E p \in copies : p.to = roadmaps[r][j]

\* A Roadmap built by three calls of add_step.
C12_Witness ==
    \E r \in DOMAIN roadmaps :
        /\ Len(added[r]) = 3
        /\ Len(roadmaps[r]) = 3

\* C13: step(index) on a Roadmap of n steps fails with OutOfRangeError for
\* every index >= n and returns the step at position index for every
\* index < n, and the Roadmap has the steps it had.
C13_StepBoundsChecked ==
    /\ roadmaps = added
    /\ ret.op = "step" =>
         LET n == Len(roadmaps[1])
         IN  IF ret.index >= n THEN ret.error = "OutOfRangeError"
             ELSE ret.error = "" /\ ret.ref = roadmaps[1][ret.index + 1]

\* step(2) on a Roadmap of two steps.
C13_Witness ==
    /\ ret.op = "step"
    /\ Len(roadmaps[1]) = 2
    /\ ret.index = 2
    /\ ret.error = "OutOfRangeError"

\* The cost kinds of the steps of a Roadmap.
Kinds(h, steps) == UNION { DOMAIN h[steps[j]].costs : j \in DOMAIN steps }

\* The double sum, taken in step order from acc, of the values the steps
\* hold for kind k, a step without the kind counting as 0.0.
RECURSIVE SumOfKind(_, _, _, _)
SumOfKind(acc, k, h, steps) ==
    IF steps = << >> THEN acc
    ELSE SumOfKind(DoubleAdd(acc, Index(h[Head(steps)].costs, k, DZero)), k, h,
                   Tail(steps))

\* C14: get_total_costs returns a value for exactly the cost kinds that are
\* keys of some step's Costs, the value of a kind being the double sum in
\* step order of the steps' values for it with 0 for a step that lacks it;
\* the result is empty for a Roadmap without steps; and the call changes
\* neither the Roadmap nor a step.
C14_TotalCosts ==
    /\ [](ret.op = "get_total_costs" =>
            /\ DOMAIN ret.value = Kinds(heap, roadmaps[1])
            /\ \A k \in DOMAIN ret.value :
                 ret.value[k] = SumOfKind(DZero, k, heap, roadmaps[1])
            /\ roadmaps[1] = << >> => ret.value = EmptyMap)
    /\ [][ret'.op = "get_total_costs" => heap' = heap /\ roadmaps' = roadmaps]_vars

\* The total of a Roadmap of three steps, one of which lacks a kind that the
\* others hold.
C14_Witness ==
    /\ ret.op = "get_total_costs"
    /\ Len(roadmaps[1]) = 3
    /\ \E a, b \in DOMAIN heap :
         /\ DOMAIN heap[a].costs = {1, 2}
         /\ DOMAIN heap[b].costs = {1}

\* The steps of the Roadmap read, in the order perm puts them.
Permuted(perm) == [j \in DOMAIN roadmaps[1] |-> roadmaps[1][perm[j]]]

\* The steps that hold cost kind k.
Carriers(k) == { a \in DOMAIN heap : k \in DOMAIN heap[a].costs }

\* The values held for kind k are whole numbers below 2^20 whose exact sum
\* is below 2^30: no addition of them rounds.
RECURSIVE LowSum(_, _)
LowSum(k, S) ==
    IF S = {} THEN 0
    ELSE LET a == CHOOSE x \in S : TRUE
         IN  heap[a].costs[k].lo + LowSum(k, S \ {a})

SumsExactly(k) ==
    /\ \A a \in Carriers(k) : heap[a].costs[k].hi = 0 /\ heap[a].costs[k].lo < 2^20
    /\ LowSum(k, Carriers(k)) < LowBits

C16_CopyIndependent ==
    [][ /\ \A p \in copies' \ copies :
             /\ p.to \notin DOMAIN heap
             /\ heap'[p.to] = heap[p.from]
             /\ heap'[p.from] = heap[p.from]
        /\ \A p \in copies :
             /\ heap'[p.to] # heap[p.to] => heap'[p.from] = heap[p.from]
             /\ heap'[p.from] # heap[p.from] => heap'[p.to] = heap[p.to] ]_vars

\* Copies of a RoadStep and of a TransferStep, the second with a final mode
\* its original lacks after a setter call.
C16_Witness ==
    /\ \E p \in copies : heap[p.from].class = "RoadStep"
    /\ \E p \in copies :
         /\ heap[p.from].class = "TransferStep"
         /\ "final_mode" \in DOMAIN heap[p.to] \ DOMAIN heap[p.from]

\* The values of the steps of Roadmap r, in order.
StepsOf(r) == [j \in DOMAIN roadmaps[r] |-> heap[roadmaps[r][j]]]

\* The addresses held by Roadmap r.
Owned(r) == { roadmaps[r][j] : j \in DOMAIN roadmaps[r] }

\* C17: no step object belongs to two Roadmaps, to one Roadmap twice, or to
\* a Roadmap and a caller; a Roadmap made by copying has new objects equal to
\* the steps of the Roadmap copied, in the same order and of the same class;
\* and no step changes the steps of two Roadmaps.
C17_NoSharedStep ==
    /\ [](/\ \A r \in DOMAIN roadmaps :
               /\ Cardinality(Owned(r)) = Len(roadmaps[r])
               /\ Owned(r) \cap loose = {}
               /\ \A q \in DOMAIN roadmaps : q # r => Owned(q) \cap Owned(r) = {})
    /\ [][ /\ \A c \in DOMAIN roadmaps' \ DOMAIN roadmaps :
                 roadmaps'[c] # << >> =>
                     \E r \in DOMAIN roadmaps :
                         /\ StepsOf(c)' = StepsOf(r)
                         /\ Owned(c)' \cap DOMAIN heap = {}
           /\ \A r, q \in DOMAIN roadmaps :
                 (r # q /\ StepsOf(r)' # StepsOf(r)) => StepsOf(q)' = StepsOf(q) ]_vars

\* A Roadmap of two steps of different classes and its copy, whose first
\* steps differ after a setter call on one of them.
C17_Witness ==
    /\ Len(roadmaps) = 2
    /\ Len(roadmaps[1]) = 2
    /\ Len(roadmaps[2]) = 2
    /\ heap[roadmaps[1][1]].class # heap[roadmaps[1][2]].class
    /\ \A j \in 1..2 : [from |-> roadmaps[1][j], to |-> roadmaps[2][j]] \in copies
    /\ heap[roadmaps[1][1]] # heap[roadmaps[2][1]]

=============================================================================
